---- MODULE Spec2Model ----
(***************************************************************************)
(* Task manager (Remix + Mongoose): the connection manager               *)
(* (utils/db.server: connectToDatabase over the process-wide cachedDb),   *)
(* the Task schema (models/task.server) and the route's loader (read      *)
(* path) and action (write path) of routes/_index.jsx.                    *)
(*                                                                         *)
(* JavaScript runs each handler to its next await without interruption,   *)
(* so one action of the model is one such run: from a request's arrival   *)
(* or from the settling of the promise it awaits, up to the next await or *)
(* the return.  The store (MongoDB through Mongoose) and the clock        *)
(* (Date.now) are the environment.                                         *)
(***************************************************************************)
EXTENDS Integers, Sequences, FiniteSets, TLC

\* ------------------------------------------------------------- bounds
MaxReq      == 3   \* requests in one behaviour, all of which may be in flight at once
MaxAttempts == 2   \* mongoose.connect attempts in one behaviour
MaxLen      == 2   \* longest form string of SpecForm
MaxClock    == 1   \* how far the clock advances in one behaviour
ClockStart  == 9   \* the clock's reading at process start

\* ------------------------------------------------------- form values
\* formData.get(name) is null (field absent), a File, or a string.
Chars == {" ", "a"}

RECURSIVE StringsOfLen(_)
StringsOfLen(n) ==
  IF n = 0 THEN {<<>>}
  ELSE {Append(s, c) : s \in StringsOfLen(n - 1), c \in Chars}

Strings(n) == UNION {StringsOfLen(k) : k \in 0..n}

Null == [type |-> "null", chars |-> <<>>]
File == [type |-> "file", chars |-> <<>>]
Str(s) == [type |-> "string", chars |-> s]

FormValues(n) == {Null, File} \cup {Str(s) : s \in Strings(n)}

\* String.prototype.trim
IsSpace(c) == c = " "

RECURSIVE TrimStart(_)
TrimStart(s) ==
  IF s = <<>> THEN s
  ELSE IF IsSpace(Head(s)) THEN TrimStart(Tail(s)) ELSE s

RECURSIVE TrimEnd(_)
TrimEnd(s) ==
  IF s = <<>> THEN s
  ELSE IF IsSpace(s[Len(s)]) THEN TrimEnd(SubSeq(s, 1, Len(s) - 1)) ELSE s

TrimStartOnly(s) == TrimStart(s)

Trim(s) == TrimEnd(TrimStart(s))

\* JavaScript truthiness of a form value: null and "" are falsy, a File is truthy.
Truthy(v) == v.type = "file" \/ (v.type = "string" /\ v.chars # <<>>)

\* action's validation: !title || typeof title !== 'string' || title.trim().length === 0
TitleRejectedNoTrim(title) ==
  \/ ~Truthy(title)
  \/ title.type # "string"

TitleRejected(title) ==
  \/ ~Truthy(title)
  \/ title.type # "string"
  \/ Len(Trim(title.chars)) = 0

\* description ? description.trim() : ''   (a File has no trim: TypeError)
DescriptionThrows(description) == Truthy(description) /\ description.type # "string"

DescriptionArg(description) ==
  IF Truthy(description) THEN Trim(description.chars) ELSE <<>>

\* ------------------------------------------------------------ schema
\* createdAt: { type: Date, default: Date.now }
DefaultCreatedAtFixed(clock) == ClockStart

DefaultCreatedAt(clock) == clock

\* new Task({title, description}): the schema's setters (trim) and defaults.
NewTask(id, titleArg, descriptionArg, clock) ==
  [_id         |-> id,
   title       |-> Trim(titleArg),
   description |-> Trim(descriptionArg),
   createdAt   |-> DefaultCreatedAt(clock)]

NoTask == [_id |-> 0, title |-> <<>>, description |-> <<>>, createdAt |-> 0]

\* ----------------------------------------------------- serialization
\* ObjectId.toString: fixed-width hexadecimal digits.
IdToString(id) == <<id \div 16, id % 16>>

\* Date.toISOString: fixed-width decimal fields, most significant first.
ToISOString(t) == <<t \div 10, t % 10>>

Serialize(task) ==
  [_id         |-> IdToString(task._id),
   title       |-> task.title,
   description |-> task.description,
   createdAt   |-> ToISOString(task.createdAt)]

\* ------------------------------------------------------------- query
\* Task.find({}).sort({ createdAt: -1 }): every document, newest first.
RECURSIVE InsertAscending(_, _)
InsertAscending(t, sorted) ==
  IF sorted = <<>> THEN <<t>>
  ELSE IF t.createdAt < Head(sorted).createdAt THEN <<t>> \o sorted
  ELSE <<Head(sorted)>> \o InsertAscending(t, Tail(sorted))

RECURSIVE InsertNewestFirst(_, _)
InsertNewestFirst(t, sorted) ==
  IF sorted = <<>> THEN <<t>>
  ELSE IF t.createdAt > Head(sorted).createdAt THEN <<t>> \o sorted
  ELSE <<Head(sorted)>> \o InsertNewestFirst(t, Tail(sorted))

RECURSIVE SortAscending(_)
SortAscending(docs) ==
  IF docs = <<>> THEN <<>>
  ELSE InsertAscending(Head(docs), SortAscending(Tail(docs)))

RECURSIVE SortNewestFirst(_)
SortNewestFirst(docs) ==
  IF docs = <<>> THEN <<>>
  ELSE InsertNewestFirst(Head(docs), SortNewestFirst(Tail(docs)))

FindAllSortedAscending(docs) == SortAscending(docs)

FindAllSorted(docs) == SortNewestFirst(docs)

MapSerialize(docs) == [i \in 1..Len(docs) |-> Serialize(docs[i])]

\* ---------------------------------------------------------- responses
\* json(body, {status}) and redirect(location): the status and the body's fields.
NoResponse ==
  [status |-> 0, location |-> "", errorsTitle |-> "", message |-> "", tasks |-> <<>>]

\* redirect("/")
Redirect == [NoResponse EXCEPT !.status = 302, !.location = "/"]

\* json({ errors: { title: "Title is required." } }, { status: 400 })
ValidationResponse ==
  [NoResponse EXCEPT !.status = 400, !.errorsTitle = "Title is required."]

\* json({ message: "Failed to add task. Please try again." }, { status: 500 })
AddFailedAsRedirect == [NoResponse EXCEPT !.status = 302, !.location = "/"]

AddFailedResponse ==
  [NoResponse EXCEPT !.status = 500, !.message = "Failed to add task. Please try again."]

\* throw json({ message: "Failed to load tasks." }, { status: 500 })
LoadFailedResponse ==
  [NoResponse EXCEPT !.status = 500, !.message = "Failed to load tasks."]

\* json({ tasks: serializableTasks })
TasksResponse(ts) == [NoResponse EXCEPT !.status = 200, !.tasks = ts]

\* -------------------------------------------------------------- state
VARIABLES
  cachedDb,   \* global.mongoose: [conn, promise]; 0 is null, n > 0 is attempt n's handle / promise
  attempts,   \* the mongoose.connect calls so far: "pending", "ok" or "failed" each
  store,      \* the tasks collection, in insertion order
  now,        \* Date.now()
  nextId,     \* the ObjectId generator's counter
  reqs        \* the requests: each one's handler position and locals

vars == <<cachedDb, attempts, store, now, nextId, reqs>>

Slots == 1..MaxReq

IdleReq ==
  [kind |-> "idle", pc |-> "idle", title |-> Null, description |-> Null,
   promise |-> 0, conn |-> 0, error |-> 0, newTask |-> NoTask, response |-> NoResponse]

Init ==
  /\ cachedDb = [conn |-> 0, promise |-> 0]
  /\ attempts = <<>>
  /\ store = <<>>
  /\ now = ClockStart
  /\ nextId = 1
  /\ reqs = [r \in Slots |-> IdleReq]

\* ------------------------------------------------ connection manager
\* connectToDatabase(): what one call does to the cache and what it returns.
\* conn is the handle returned at once (0: none), promise the attempt whose
\* promise is returned (0: none).
StartAttempt(db, atts) ==
  [db       |-> [db EXCEPT !.promise = Len(atts) + 1],
   attempts |-> Append(atts, "pending"),
   conn     |-> 0,
   promise  |-> Len(atts) + 1]

ConnectNoSingleFlight(db, atts) ==
  IF db.conn # 0
  THEN [db |-> db, attempts |-> atts, conn |-> db.conn, promise |-> 0]
  ELSE StartAttempt(db, atts)

ConnectNoCache(db, atts) == StartAttempt(db, atts)

ConnectToDatabase(db, atts) ==
  IF db.conn # 0
  THEN [db |-> db, attempts |-> atts, conn |-> db.conn, promise |-> 0]
  ELSE IF db.promise = 0
  THEN StartAttempt(db, atts)
  ELSE [db |-> db, attempts |-> atts, conn |-> 0, promise |-> db.promise]

\* .then((m) => { cachedDb.conn = m.connection; ... })
ThenCallback(db, a) == [db EXCEPT !.conn = a]

\* .catch((error) => { cachedDb.promise = null; ...; throw error; })
CatchKeepsPromise(db) == db

CatchCallback(db) == [db EXCEPT !.promise = 0]

\* mongoose.connect settles: attempt a succeeds
ConnectResolve ==
  \E a \in DOMAIN attempts :
    /\ attempts[a] = "pending"
    /\ attempts' = [attempts EXCEPT ![a] = "ok"]
    /\ cachedDb' = ThenCallback(cachedDb, a)
    /\ UNCHANGED <<store, now, nextId, reqs>>

\* mongoose.connect settles: attempt a fails
ConnectReject ==
  \E a \in DOMAIN attempts :
    /\ attempts[a] = "pending"
    /\ attempts' = [attempts EXCEPT ![a] = "failed"]
    /\ cachedDb' = CatchCallback(cachedDb)
    /\ UNCHANGED <<store, now, nextId, reqs>>

\* the promise a request awaits from connectToDatabase() has settled
ConnectSettled(q) ==
  \/ q.conn # 0
  \/ q.promise # 0 /\ attempts[q.promise] # "pending"

ConnectFulfilled(q) ==
  \/ q.conn # 0
  \/ q.promise # 0 /\ attempts[q.promise] = "ok"

\* the value of `await connectToDatabase()`: the handle
AwaitedHandle(q) == IF q.conn # 0 THEN q.conn ELSE q.promise

\* ------------------------------------------------------------ arrival
\* requests are numbered in their order of arrival
Arrives(r) ==
  /\ reqs[r].kind = "idle"
  /\ \A q \in 1..(r - 1) : reqs[q].kind # "idle"

\* a request arrives and runs to `await connectToDatabase()`
Submit(r, kind, title, description) ==
  LET c == ConnectToDatabase(cachedDb, attempts) IN
    /\ Arrives(r)
    /\ Len(c.attempts) <= MaxAttempts
    /\ cachedDb' = c.db
    /\ attempts' = c.attempts
    /\ reqs' = [reqs EXCEPT ![r] =
                  [IdleReq EXCEPT !.kind = kind, !.pc = "connect",
                                  !.title = title, !.description = description,
                                  !.promise = c.promise, !.conn = c.conn]]
    /\ UNCHANGED <<store, now, nextId>>

SubmitLoader(r) == Submit(r, "loader", Null, Null)

SubmitAction(r, title, description) == Submit(r, "action", title, description)

\* a handler returns (or throws): its locals are gone, the response stays
\* with the request it answers
Return(q, response) ==
  [IdleReq EXCEPT !.kind = q.kind, !.pc = "done", !.title = q.title,
                  !.response = response]

\* ------------------------------------------------------------- loader
\* `await connectToDatabase()` returns or throws in loader
LoaderConnected(r) ==
  /\ reqs[r].kind = "loader" /\ reqs[r].pc = "connect"
  /\ ConnectSettled(reqs[r])
  /\ reqs' = [reqs EXCEPT ![r] =
       IF ConnectFulfilled(reqs[r])
       THEN [@ EXCEPT !.pc = "find", !.conn = AwaitedHandle(reqs[r])]
       ELSE [Return(reqs[r], LoadFailedResponse) EXCEPT !.error = reqs[r].promise]]
  /\ UNCHANGED <<cachedDb, attempts, store, now, nextId>>

\* the query answers: map to serializable tasks, return json({tasks})
LoaderFound(r) ==
  /\ reqs[r].kind = "loader" /\ reqs[r].pc = "find"
  /\ reqs' = [reqs EXCEPT ![r] =
       Return(reqs[r], TasksResponse(MapSerialize(FindAllSorted(store))))]
  /\ UNCHANGED <<cachedDb, attempts, store, now, nextId>>

\* the query fails: catch, throw json({message}, 500)
LoaderFindFails(r) ==
  /\ reqs[r].kind = "loader" /\ reqs[r].pc = "find"
  /\ reqs' = [reqs EXCEPT ![r] =
       Return(reqs[r], LoadFailedResponse)]
  /\ UNCHANGED <<cachedDb, attempts, store, now, nextId>>

\* ------------------------------------------------------------- action
\* `await connectToDatabase()` returns or throws in action
ActionConnected(r) ==
  /\ reqs[r].kind = "action" /\ reqs[r].pc = "connect"
  /\ ConnectSettled(reqs[r])
  /\ reqs' = [reqs EXCEPT ![r] =
       IF ConnectFulfilled(reqs[r])
       THEN [@ EXCEPT !.pc = "form", !.conn = AwaitedHandle(reqs[r])]
       ELSE [Return(reqs[r], AddFailedResponse) EXCEPT !.error = reqs[r].promise]]
  /\ UNCHANGED <<cachedDb, attempts, store, now, nextId>>

\* newTask.save() reaching the collection
InsertUnlessDuplicate(docs, task) ==
  IF \E i \in 1..Len(docs) :
       docs[i].title = task.title /\ docs[i].description = task.description
  THEN docs
  ELSE Append(docs, task)

Insert(docs, task) == Append(docs, task)

\* Date.now() read again: the clock has not gone back since its last reading
ClockReadings == now..(ClockStart + MaxClock)

\* `await request.formData()` returns: validate, build the task, call save()
ActionFormParsed(r) ==
  LET q == reqs[r] IN
    /\ q.kind = "action" /\ q.pc = "form"
    /\ IF TitleRejected(q.title)
       THEN /\ reqs' = [reqs EXCEPT ![r] =
                 Return(reqs[r], ValidationResponse)]
            /\ UNCHANGED <<nextId, now>>
       ELSE IF DescriptionThrows(q.description)
       THEN /\ reqs' = [reqs EXCEPT ![r] =
                 Return(reqs[r], AddFailedResponse)]
            /\ UNCHANGED <<nextId, now>>
       ELSE /\ now' \in ClockReadings
            /\ reqs' = [reqs EXCEPT ![r] =
                 [@ EXCEPT !.pc = "save",
                           !.newTask = NewTask(nextId, Trim(q.title.chars),
                                               DescriptionArg(q.description), now')]]
            /\ nextId' = nextId + 1
    /\ UNCHANGED <<cachedDb, attempts, store>>

\* `await newTask.save()` returns: redirect("/")
ActionSaved(r) ==
  /\ reqs[r].kind = "action" /\ reqs[r].pc = "save"
  /\ store' = Insert(store, reqs[r].newTask)
  /\ reqs' = [reqs EXCEPT ![r] = Return(reqs[r], Redirect)]
  /\ UNCHANGED <<cachedDb, attempts, now, nextId>>

\* `await newTask.save()` throws: catch, json({message}, 500)
ActionSaveFails(r) ==
  /\ reqs[r].kind = "action" /\ reqs[r].pc = "save"
  /\ reqs' = [reqs EXCEPT ![r] =
       Return(reqs[r], AddFailedResponse)]
  /\ UNCHANGED <<cachedDb, attempts, store, now, nextId>>

\* ----------------------------------------------------- specifications
\* The general workload: loaders and actions in any interleaving; the titles
\* are one of each kind the action tells apart (absent, a File, empty, blank,
\* text), the description is absent.
SampleTitles == {Null, File, Str(<<>>), Str(<<" ">>), Str(<<"a">>)}

SampleDescriptions == {Null}

Next ==
  \/ \E r \in Slots : SubmitLoader(r)
  \/ \E r \in Slots : \E t \in SampleTitles, d \in SampleDescriptions :
       SubmitAction(r, t, d)
  \/ ConnectResolve
  \/ ConnectReject
  \/ \E r \in Slots : LoaderConnected(r)
  \/ \E r \in Slots : LoaderFound(r)
  \/ \E r \in Slots : LoaderFindFails(r)
  \/ \E r \in Slots : ActionConnected(r)
  \/ \E r \in Slots : ActionFormParsed(r)
  \/ \E r \in Slots : ActionSaved(r)
  \/ \E r \in Slots : ActionSaveFails(r)

Spec == Init /\ [][Next]_vars

\* One write request with every form value up to MaxLen, among loaders.
NextForm ==
  \/ \E r \in Slots : SubmitLoader(r)
  \/ \E r \in Slots :
       /\ \A q \in Slots : reqs[q].kind # "action"
       /\ \E t, d \in FormValues(MaxLen) : SubmitAction(r, t, d)
  \/ ConnectResolve
  \/ ConnectReject
  \/ \E r \in Slots : LoaderConnected(r)
  \/ \E r \in Slots : LoaderFound(r)
  \/ \E r \in Slots : LoaderFindFails(r)
  \/ \E r \in Slots : ActionConnected(r)
  \/ \E r \in Slots : ActionFormParsed(r)
  \/ \E r \in Slots : ActionSaved(r)
  \/ \E r \in Slots : ActionSaveFails(r)

SpecForm == Init /\ [][NextForm]_vars

\* ------------------------------------------------------------- claims
\* a request arrives in this step
Arrived(r) == reqs[r].kind = "idle" /\ reqs'[r].kind # "idle"

\* the attempts that have not settled
Pending == {a \in DOMAIN attempts : attempts[a] = "pending"}

\* the requests that have got a handle from the promise of attempt a
Served(a) ==
  {r \in Slots : reqs[r].promise = a /\ reqs[r].pc \in {"find", "form", "save"}}

\* C1: callers that arrive while no handle is cached and an attempt is in
\* flight start no second attempt: at most one attempt is pending, every
\* caller still waiting awaits that one, and what each caller gets is that
\* attempt's outcome: the one cached handle, or that attempt's failure.
C1_SingleFlight ==
  /\ Cardinality(Pending) <= 1
  /\ \A r \in Slots :
       (reqs[r].pc = "connect" /\ reqs[r].promise \in Pending)
         => cachedDb.promise = reqs[r].promise
  /\ \A r \in Slots :
       (reqs[r].pc \in {"find", "form", "save"} /\ reqs[r].promise # 0)
         => /\ attempts[reqs[r].promise] = "ok"
            /\ reqs[r].conn = reqs[r].promise
            /\ reqs[r].conn = cachedDb.conn
  /\ \A r \in Slots :
       reqs[r].error # 0
         => attempts[reqs[r].error] = "failed" /\ reqs[r].response.status = 500

\* two callers, at least, hold the handle of the only attempt ever started
C1_Witness ==
  /\ Len(attempts) = 1
  /\ attempts[1] = "ok"
  /\ Cardinality(Served(1)) >= 2

\* C2: a failed attempt clears cachedDb.promise and leaves cachedDb.conn
\* unset; the cache never holds a failed attempt's promise; a request that
\* arrives is never handed an attempt that has already failed, and starts a
\* new attempt when nothing is cached; an attempt is started only by an
\* arriving call.
C2_FailureClearsPromise ==
  [][/\ \A a \in DOMAIN attempts :
          (attempts[a] = "pending" /\ attempts'[a] = "failed")
            => cachedDb' = [conn |-> 0, promise |-> 0]
     /\ cachedDb'.promise # 0 => attempts'[cachedDb'.promise] # "failed"
     /\ \A r \in Slots :
          Arrived(r)
            => /\ reqs'[r].promise # 0 => attempts'[reqs'[r].promise] = "pending"
               /\ (cachedDb.conn = 0 /\ cachedDb.promise = 0)
                    => /\ Len(attempts') = Len(attempts) + 1
                       /\ reqs'[r].promise = Len(attempts')
     /\ Len(attempts') > Len(attempts) => \E r \in Slots : Arrived(r)
    ]_vars

\* after the first attempt failed, a later call has started the second
C2_Witness ==
  /\ Len(attempts) = 2
  /\ attempts[1] = "failed"
  /\ cachedDb.promise = 2
  /\ \E r \in Slots : reqs[r].pc = "connect" /\ reqs[r].promise = 2
  /\ \E r \in Slots : reqs[r].pc = "done" /\ reqs[r].error = 1

\* C3: once cachedDb.conn is set it never changes, no attempt is started or
\* settles afterwards, and every call that arrives is returned that handle.
C3_CachedHandleStable ==
  [][cachedDb.conn # 0
       => /\ cachedDb'.conn = cachedDb.conn
          /\ attempts' = attempts
          /\ \A r \in Slots :
               Arrived(r)
                 => reqs'[r].conn = cachedDb.conn /\ reqs'[r].promise = 0
    ]_vars

\* a request that arrived after the handle was cached has been returned it,
\* beside one that got it from the attempt's promise
C3_Witness ==
  /\ cachedDb.conn # 0
  /\ \E r \in Slots :
       /\ reqs[r].pc \in {"find", "form", "save"}
       /\ reqs[r].promise = 0
       /\ reqs[r].conn = cachedDb.conn
  /\ Served(cachedDb.conn) # {}

\* t is s without its leading and trailing spaces (stated apart from Trim)
IsTrimOf(t, s) ==
  \E i \in 0..Len(s) :
    /\ i + Len(t) <= Len(s)
    /\ \A k \in 1..Len(t) : t[k] = s[i + k]
    /\ \A k \in 1..Len(s) : (k <= i \/ k > i + Len(t)) => s[k] = " "
    /\ t # <<>> => (t[1] # " " /\ t[Len(t)] # " ")

\* the title fails the claim's test: absent, not text, empty or blank
InvalidTitle(v) ==
  \/ v.type # "string"
  \/ \A k \in 1..Len(v.chars) : v.chars[k] = " "

IsValidationError(resp) ==
  /\ resp.status = 400
  /\ resp.errorsTitle = "Title is required."
  /\ resp.location = ""

IsAddFailed(resp) ==
  /\ resp.status = 500
  /\ resp.message = "Failed to add task. Please try again."
  /\ resp.location = ""

\* request r takes a step
Steps(r) == reqs'[r] # reqs[r]

C9_StoreFailure ==
  [][\A r \in Slots :
       ( /\ reqs[r].kind = "action" /\ ~InvalidTitle(reqs[r].title)
         /\ reqs[r].pc # "done" /\ reqs'[r].pc = "done" )
         => /\ \/ /\ reqs[r].pc = "save"
                  /\ reqs'[r].response.status = 302
                  /\ reqs'[r].response.location = "/"
                  /\ store' = Append(store, reqs[r].newTask)
               \/ /\ IsAddFailed(reqs'[r].response)
                  /\ store' = store
            /\ reqs[r].pc = "connect" => attempts[reqs[r].promise] = "failed"
    ]_vars

\* a valid title was answered 500 after its task was built: the save failed
C9_Witness ==
  \E r \in Slots :
    /\ reqs[r].kind = "action"
    /\ reqs[r].title = Str(<<"a", " ">>)
    /\ reqs[r].pc = "done"
    /\ reqs[r].error = 0
    /\ IsAddFailed(reqs[r].response)
    /\ nextId = 2
    /\ store = <<>>

\* C6: a successful write appends exactly one task whose title is the trimmed
\* title and whose description is the trimmed description, or empty when the
\* description is absent or empty; and a read returns one record for each
\* stored task, with that task's id, title and description.
C6_WriteThenRead ==
  [][/\ \A r \in Slots :
          ( /\ reqs[r].kind = "action" /\ reqs[r].pc = "save"
            /\ reqs'[r].response.status = 302 )
            => /\ Len(store') = Len(store) + 1
               /\ SubSeq(store', 1, Len(store)) = store
               /\ LET doc == store'[Len(store')] IN
                    /\ reqs[r].title.type = "string"
                    /\ doc.title # <<>>
                    /\ IsTrimOf(doc.title, reqs[r].title.chars)
                    /\ IF reqs[r].description.type = "string"
                       THEN IsTrimOf(doc.description, reqs[r].description.chars)
                       ELSE doc.description = <<>>
     /\ \A r \in Slots :
          ( /\ reqs[r].kind = "loader" /\ reqs[r].pc = "find"
            /\ reqs'[r].response.status = 200 )
            => LET ts == reqs'[r].response.tasks IN
                 /\ Len(ts) = Len(store)
                 /\ \A i \in 1..Len(store) :
                      \E j \in 1..Len(ts) :
                        /\ ts[j]._id = IdToString(store[i]._id)
                        /\ ts[j].title = store[i].title
                        /\ ts[j].description = store[i].description
                        /\ \A k \in 1..Len(ts) : ts[k]._id = ts[j]._id => k = j
    ]_vars

\* the title " a" was written and a later read lists the one task "a"
C6_Witness ==
  \E w, l \in Slots :
    /\ reqs[w].kind = "action"
    /\ reqs[w].title = Str(<<" ", "a">>)
    /\ reqs[w].response.status = 302
    /\ reqs[l].kind = "loader"
    /\ reqs[l].response.status = 200
    /\ Len(reqs[l].response.tasks) = 1
    /\ reqs[l].response.tasks[1].title = <<"a">>

\* a >= b for two ISO timestamps of the same width, compared as text
RECURSIVE TextGeq(_, _)
TextGeq(a, b) ==
  IF a = <<>> THEN TRUE
  ELSE IF Head(a) # Head(b) THEN Head(a) > Head(b)
  ELSE TextGeq(Tail(a), Tail(b))

\* C7: a successful read returns every stored task, each once, nothing else,
\* and in an order where no record is older than one listed after it, by the
\* createdAt the response carries.
C7_AllTasksNewestFirst ==
  [][\A r \in Slots :
       ( /\ reqs[r].kind = "loader" /\ reqs[r].pc = "find"
         /\ reqs'[r].response.status = 200 )
         => LET ts == reqs'[r].response.tasks IN
              /\ Len(ts) = Len(store)
              /\ \A i \in 1..Len(store) :
                   \E j \in 1..Len(ts) : ts[j]._id = IdToString(store[i]._id)
              /\ \A j, k \in 1..Len(ts) :
                   j < k => TextGeq(ts[j].createdAt, ts[k].createdAt)
    ]_vars

\* a read listed two tasks of different ages, the one stored last first
C7_Witness ==
  \E r \in Slots :
    /\ reqs[r].response.status = 200
    /\ Len(reqs[r].response.tasks) = 2
    /\ Len(store) = 2
    /\ reqs[r].response.tasks[1]._id = IdToString(store[2]._id)
    /\ reqs[r].response.tasks[1].createdAt # reqs[r].response.tasks[2].createdAt

\* C8 as claimed: of two stored tasks, the one inserted first has the
\* smaller or equal createdAt.
C8_Original ==
  \A i, j \in 1..Len(store) :
    i < j => store[i].createdAt <= store[j].createdAt

\* C8 amended: createdAt is the clock's reading when the action builds the
\* task, before the save is issued; of two tasks the one built first has the
\* smaller or equal createdAt, in the store and in flight; and a stored
\* task is never changed or removed.
C8_CreatedAtAtConstruction ==
  [][/\ \A r \in Slots :
          (reqs[r].pc = "form" /\ reqs'[r].pc = "save")
            => /\ reqs'[r].newTask.createdAt = now'
               /\ now' >= now
               /\ reqs'[r].newTask._id = nextId
     /\ SubSeq(store', 1, Len(store)) = store
     /\ LET built == {store'[i] : i \in 1..Len(store')}
                       \cup {reqs'[r].newTask : r \in {q \in Slots : reqs'[q].pc = "save"}}
        IN \A x, y \in built : x._id < y._id => x.createdAt <= y.createdAt
    ]_vars

\* two tasks are stored, the one built later (and newer) inserted first
C8_Witness ==
  /\ Len(store) = 2
  /\ store[1]._id > store[2]._id
  /\ store[1].createdAt > store[2].createdAt

\* C10: every successful write appends one task and leaves the tasks already
\* stored as they were; the stored tasks have pairwise distinct ids, and
\* there is one of them for each write request that was redirected.
C10_NoDeduplication ==
  [][/\ \A r \in Slots :
          (reqs[r].pc = "save" /\ reqs'[r].response.status = 302)
            => store' = Append(store, reqs[r].newTask)
     /\ SubSeq(store', 1, Len(store)) = store
     /\ \A i, j \in 1..Len(store') : store'[i]._id = store'[j]._id => i = j
     /\ Len(store') = Cardinality({r \in Slots : reqs'[r].response.status = 302})
    ]_vars

\* two writes with the same title and description are both stored
C10_Witness ==
  /\ Len(store) = 2
  /\ store[1].title = store[2].title
  /\ store[1].description = store[2].description
  /\ store[1]._id # store[2]._id
  /\ Cardinality({r \in Slots : reqs[r].response.status = 302}) = 2

====
